---- MODULE Spec2Model ----
(***************************************************************************)
(* Email_Tracker: the tracking server (apps/server/src/index.ts and the    *)
(* db module it imports).  The store is the two SQLite tables emails and   *)
(* opens; the HTTP handlers run on the Node event loop, one callback at a  *)
(* time, and talk to the store through the synchronous better-sqlite3 API. *)
(* The browser extension's content script (part_000) runs in the mail page *)
(* and is modelled next to it: the page's compose dialogs, the script's    *)
(* bookkeeping of them, and the Create calls it has in flight.             *)
(***************************************************************************)
EXTENDS Integers, Sequences, FiniteSets, TLC

VARIABLES
    clock,       \* wall clock of the server, in ticks (TicksPerSec per second)
    emails,      \* table emails, in rowid order
    opens,       \* table opens, in rowid (= AUTOINCREMENT id) order
    insertedAt,  \* history: the clock tick at which each row of opens was inserted
    reqs,        \* beacon requests whose handler has started, by connection slot
    last,        \* the last response the server sent
    plan,        \* the order in which the queries emit rows of equal sort key
    dom,         \* the mail page: per compose dialog, what the host has put in it
    ext,         \* the content script's bookkeeping, per compose dialog
    observing,   \* observeGmail has run: the page observer is installed
    calls,       \* Create calls sent to the background worker and not yet answered
    answered,    \* history: the Create calls answered, with their answers
    pixels,      \* the image references the script has appended to message bodies
    notes,       \* the notifications the script has shown
    sent         \* history: the clicks on send controls the host has handled

svars == <<clock, emails, opens, insertedAt, reqs, last, plan>>
cvars == <<dom, ext, observing, calls, answered, pixels, notes, sent>>
vars == <<svars, cvars>>

\* ------------------------------------------------------------------ bounds
\* clock ticks per second, and the last second the clock reaches
TicksPerSec == 2
MaxSeconds == 72
MaxEmails == 2
MaxOpens == 2
MaxInFlight == 2
\* the largest store whose statistics are computed
StatsMaxEmails == 40
StatsLargeEmails == 201

\* the server starts a tick past a whole second
StartClock == 1
MaxClock == MaxSeconds * TicksPerSec + StartClock
\* the clock advances by 20 s, 50 s, a tick less than 60 s, or 61 s
Deltas == {20 * TicksPerSec, 50 * TicksPerSec, 60 * TicksPerSec - 1, 61 * TicksPerSec}

\* the compose dialogs of the page, the body elements a dialog gets in its
\* life, the deferred checks pending per dialog, and the clicks on send
MaxDialogs == 2
MaxBodyGen == 1
MaxTimers == 2
MaxClicks == 2

\* ------------------------------------------------------------------ values
\* JavaScript null / undefined and SQL NULL
Null == "<null>"

Falsy(v) == v = Null \/ v = ""

\* a || b
Or(a, b) == IF Falsy(a) THEN b ELSE a

Chars_track == <<"/", "t", "r", "a", "c", "k", "/">>
Chars_png == <<".", "p", "n", "g">>

PORT == 8080

PUBLIC_URL ==
    <<"h", "t", "t", "p", ":", "/", "/", "l", "o", "c", "a", "l", "h", "o", "s", "t",
      ":", "8", "0", "8", "0">>

TRANSPARENT_PNG == "iVBORw0KGgoAAAANSUhEUgAAAAEAAAABCAYAAAAfFcSJAAAADUlEQVR42mNk+M9QDwADhgGAWjR9awAAAABJRU5ErkJggg=="

\* ------------------------------------------------------------------ ids
HexDigits == <<"0", "1", "2", "3", "4", "5", "6", "7", "8", "9", "a", "b", "c", "d", "e", "f">>

HexChars == {HexDigits[i] : i \in 1..16}

\* Buffer.toString('hex'): two digits per byte, high nibble first
RECURSIVE ToHex(_)
ToHex(bytes) ==
    IF bytes = <<>> THEN <<>>
    ELSE <<HexDigits[(Head(bytes) \div 16) + 1], HexDigits[(Head(bytes) % 16) + 1]>>
         \o ToHex(Tail(bytes))

\* the outcomes of crypto.randomBytes(8) the model draws from
RandomBytes8 == { <<222, 173, 190, 239, 0, 16, 9, b>> : b \in {10, 255} }

generateTrackingId(bytes) == ToHex(bytes)

\* a beacon id no create ever returns
BogusId == <<"n", "o", "p", "e">>

RequestIds == {generateTrackingId(b) : b \in RandomBytes8} \cup {BogusId}

\* ------------------------------------------------------------------ clock
\* SQLite datetime('now') and CURRENT_TIMESTAMP: whole seconds, truncated
SqlNow == clock \div TicksPerSec

\* the window taken for milliseconds
DedupWindowSeconds_Millis == 60 \div 1000

DedupWindowSeconds == 60

\* ------------------------------------------------------------------ store
EmailIds == {emails[i].id : i \in 1..Len(emails)}

\* the result of a lookup that finds no row (JavaScript undefined)
NoRow == [id |-> <<>>]

IsRow(r) == r.id /= <<>>

\* a lookup that returns a row whatever the id
getEmailById_AnyRow(id) == IF emails /= <<>> THEN emails[1] ELSE NoRow

\* SELECT * FROM emails WHERE id = ?
getEmailById(id) ==
    IF \E i \in 1..Len(emails) : emails[i].id = id
    THEN emails[CHOOSE i \in 1..Len(emails) : emails[i].id = id]
    ELSE NoRow

\* SQL a = b: never true when either side is NULL
SqlEq(a, b) == a /= Null /\ b /= Null /\ a = b

\* the comparison of the window turned round
RecentOpens_Flipped(emailId, ipAddress) ==
    { i \in 1..Len(opens) :
        /\ opens[i].email_id = emailId
        /\ SqlEq(opens[i].ip_address, Or(ipAddress, Null))
        /\ opens[i].opened_at < SqlNow - DedupWindowSeconds }

\* a lookup keyed on the message alone
RecentOpens_AnyAddress(emailId, ipAddress) ==
    { i \in 1..Len(opens) :
        /\ opens[i].email_id = emailId
        /\ opens[i].opened_at > SqlNow - DedupWindowSeconds }

\* a window that a deduplicated fetch of the key starts anew
RecentOpens_Sliding(emailId, ipAddress) ==
    { i \in 1..Len(opens) :
        /\ opens[i].email_id = emailId
        /\ SqlEq(opens[i].ip_address, Or(ipAddress, Null))
        /\ \/ opens[i].opened_at > SqlNow - DedupWindowSeconds
           \/ /\ last.outcome = "deduped"
              /\ last.req.id = emailId
              /\ last.req.ip = Or(ipAddress, Null)
              /\ last.req.at \div TicksPerSec > SqlNow - DedupWindowSeconds }

\* WHERE email_id = ? AND ip_address = ? AND datetime(opened_at) > datetime('now','-60 seconds')
RecentOpens(emailId, ipAddress) ==
    { i \in 1..Len(opens) :
        /\ opens[i].email_id = emailId
        /\ SqlEq(opens[i].ip_address, Or(ipAddress, Null))
        /\ opens[i].opened_at > SqlNow - DedupWindowSeconds }

\* recordOpen without its first check
Decision_NoExistenceCheck(emailId, ipAddress) ==
    IF RecentOpens(emailId, ipAddress) /= {} THEN "deduped" ELSE "insert"

\* what recordOpen does with a call: "absent" (return null), "deduped" (return
\* the recent open) or "insert"
Decision(emailId, ipAddress) ==
    IF ~IsRow(getEmailById(emailId)) THEN "absent"
    ELSE IF RecentOpens(emailId, ipAddress) /= {} THEN "deduped"
    ELSE "insert"

\* SELECT * FROM opens WHERE email_id = ?
OpensFor(emailId) == {i \in 1..Len(opens) : opens[i].email_id = emailId}

\* the open_count of getEmailWithOpens
OpenCount(emailId) == Cardinality(OpensFor(emailId))

\* a table emails without its primary key
PrimaryKeyFree_None(id) == TRUE

\* id TEXT PRIMARY KEY: the INSERT of a taken id throws
PrimaryKeyFree(id) == id \notin EmailIds

NewOpen(emailId, ipAddress, userAgent) ==
    [id |-> Len(opens) + 1,
     email_id |-> emailId,
     opened_at |-> SqlNow,
     ip_address |-> Or(ipAddress, Null),
     user_agent |-> Or(userAgent, Null)]

\* an INSERT that replaces the stored open of the message
StoreOpen_Upsert(open) ==
    IF \E i \in 1..Len(opens) : opens[i].email_id = open.email_id
    THEN [opens EXCEPT ![CHOOSE i \in 1..Len(opens) : opens[i].email_id = open.email_id] = open]
    ELSE Append(opens, open)

\* INSERT INTO opens: the table after the statement
StoreOpen(open) == Append(opens, open)

\* a dedup that brings the stored open up to date with the new fetch
DedupedOpen_Refreshed(i, userAgent) == [opens[i] EXCEPT !.user_agent = userAgent]

\* return recentOpen: the stored row as it is
DedupedOpen(i, userAgent) == opens[i]

NewEmail(id, data) ==
    [id |-> id,
     recipient |-> data.recipient,
     subject |-> Or(data.subject, Null),
     sender |-> Or(data.sender, Null),
     created_at |-> SqlNow]

\* ------------------------------------------------------------------ numbers
\* JavaScript numbers are IEEE-754 doubles: a positive double is a significand
\* of 53 bits (first bit 1, most significant first) and a power of two,
\* value = sig * 2^exp.  Zero is the empty significand.
SigBits == 53

FZero == [sig |-> <<>>, exp |-> 0]

RECURSIVE BitsToInt(_)
BitsToInt(bs) ==
    IF bs = <<>> THEN 0
    ELSE 2 * BitsToInt(SubSeq(bs, 1, Len(bs) - 1)) + bs[Len(bs)]

Zeros(n) == [i \in 1..n |-> 0]

RECURSIVE StripZeros(_)
StripZeros(bs) ==
    IF bs /= <<>> /\ Head(bs) = 0 THEN StripZeros(Tail(bs)) ELSE bs

\* bs + 1 for a bit string that is not all ones: the trailing ones and the zero
\* before them flip
Incr(bs) ==
    [i \in 1..Len(bs) |->
        IF \A j \in (i + 1)..Len(bs) : bs[j] = 1 THEN 1 - bs[i] ELSE bs[i]]

\* x + y of two bit strings, one bit longer than the longer of them; the carry
\* into a position is generated below it and propagated up to it
Add(x, y) ==
    LET n == (IF Len(x) > Len(y) THEN Len(x) ELSE Len(y)) + 1
        a == Zeros(n - Len(x)) \o x
        b == Zeros(n - Len(y)) \o y
        carry(i) == \E j \in (i + 1)..n :
                       /\ a[j] + b[j] = 2
                       /\ \A k \in (i + 1)..(j - 1) : a[k] + b[k] = 1
    IN [i \in 1..n |-> (a[i] + b[i] + (IF carry(i) THEN 1 ELSE 0)) % 2]

\* round-to-nearest, ties-to-even, of the exact value bits * 2^exp (plus a
\* non-zero tail below the last bit when sticky) to a double
RoundToDouble(bits, exp, sticky) ==
    LET bs == StripZeros(bits)
        n == Len(bs)
    IN
    IF n = 0 THEN FZero
    ELSE IF n <= SigBits THEN [sig |-> bs \o Zeros(SigBits - n), exp |-> exp - (SigBits - n)]
    ELSE LET kept == SubSeq(bs, 1, SigBits)
             guard == bs[SigBits + 1]
             rest == sticky \/ \E i \in (SigBits + 2)..n : bs[i] = 1
             up == guard = 1 /\ (rest \/ kept[SigBits] = 1)
             full == \A i \in 1..SigBits : kept[i] = 1
         IN IF up /\ full
            THEN [sig |-> <<1>> \o Zeros(SigBits - 1), exp |-> exp + (n - SigBits) + 1]
            ELSE [sig |-> IF up THEN Incr(kept) ELSE kept, exp |-> exp + (n - SigBits)]

\* the next n bits of the binary expansion of r / b, for 0 <= r < b
RECURSIVE DivBits(_, _, _)
DivBits(r, b, n) ==
    IF n = 0 THEN <<>>
    ELSE IF 2 * r >= b THEN <<1>> \o DivBits(2 * r - b, b, n - 1)
         ELSE <<0>> \o DivBits(2 * r, b, n - 1)

\* what is left of r after those n bits
RECURSIVE DivRem(_, _, _)
DivRem(r, b, n) ==
    IF n = 0 THEN r
    ELSE IF 2 * r >= b THEN DivRem(2 * r - b, b, n - 1) ELSE DivRem(2 * r, b, n - 1)

\* the bits that follow the first 1 of r / b are wanted: the number of leading zeros
RECURSIVE LeadShift(_, _)
LeadShift(r, b) == IF 2 * r >= b THEN 1 ELSE 1 + LeadShift(2 * r, b)

\* a / b in double arithmetic, for integers 0 <= a <= b, b > 0
FDiv(a, b) ==
    IF a = 0 THEN FZero
    ELSE IF a = b THEN RoundToDouble(<<1>>, 0, FALSE)
    ELSE LET k == LeadShift(a, b)
             n == k + SigBits + 1
         IN RoundToDouble(DivBits(a, b, n), 0 - n, DivRem(a, b, n) /= 0)

\* x * 100 in double arithmetic: 100 = 64 + 32 + 4
FMul100(x) ==
    IF x.sig = <<>> THEN FZero
    ELSE RoundToDouble(Add(Add(x.sig \o Zeros(6), x.sig \o Zeros(5)), x.sig \o Zeros(2)),
                       x.exp, FALSE)

\* Math.round of a double 0 <= x < 2^31: the nearest integer, halves up
MathRound(x) ==
    LET n == Len(x.sig)
        whole == n + x.exp
    IN
    IF n = 0 \/ whole < 0 THEN 0
    ELSE IF whole >= n THEN BitsToInt(x.sig \o Zeros(x.exp))
    ELSE BitsToInt(SubSeq(x.sig, 1, whole)) + x.sig[whole + 1]

\* ------------------------------------------------------------------ stats
\* SELECT COUNT(DISTINCT email_id) FROM opens
OpenedEmailIds == {opens[i].email_id : i \in 1..Len(opens)}

\* a rate without its division
OpenRate_Unscaled(emailsOpened, totalEmails) ==
    IF totalEmails > 0 THEN 100 * emailsOpened ELSE 0

\* totalEmails > 0 ? Math.round((emailsOpened / totalEmails) * 100) : 0
OpenRate(emailsOpened, totalEmails) ==
    IF totalEmails > 0 THEN MathRound(FMul100(FDiv(emailsOpened, totalEmails))) ELSE 0

getStats ==
    [total_emails |-> Len(emails),
     total_opens |-> Len(opens),
     emails_opened |-> Cardinality(OpenedEmailIds),
     open_rate |-> OpenRate(Cardinality(OpenedEmailIds), Len(emails))]

\* ------------------------------------------------------------------ routes
TrackPath(id) == Chars_track \o id \o Chars_png

\* the URL without its extension
TrackingUrl_NoExt(id) == PUBLIC_URL \o Chars_track \o id

\* `${PUBLIC_URL}/track/${email.id}.png`
TrackingUrl(id) == PUBLIC_URL \o TrackPath(id)

\* the path a client requests when it fetches url
UrlPath(url) == SubSeq(url, Len(PUBLIC_URL) + 1, Len(url))

\* app.get('/track/:id.png'): the :id parameter of a matching path, else empty
RouteParam(path) ==
    LET n == Len(path) IN
    IF /\ n > Len(Chars_track) + Len(Chars_png)
       /\ SubSeq(path, 1, Len(Chars_track)) = Chars_track
       /\ SubSeq(path, n - Len(Chars_png) + 1, n) = Chars_png
       /\ \A i \in (Len(Chars_track) + 1)..(n - Len(Chars_png)) : path[i] /= "/"
    THEN SubSeq(path, Len(Chars_track) + 1, n - Len(Chars_png))
    ELSE <<>>

PixelResponse ==
    [status |-> 200,
     type |-> "image/png",
     cache |-> "no-store, no-cache, must-revalidate, proxy-revalidate",
     body |-> TRANSPARENT_PNG]

\* Express's default error handler, reached by an exception no route catches
UncaughtResponse ==
    [status |-> 500, type |-> "text/html", cache |-> Null, body |-> "Internal Server Error"]

JsonResponse(status, body) ==
    [status |-> status, type |-> "application/json", cache |-> Null, body |-> body]

\* ------------------------------------------------------------------ requests
Slots == 1..MaxInFlight

FreeSlot == [st |-> "free", id |-> <<>>, ip |-> Null, ua |-> Null]

\* the headers and socket address of a beacon request
BeaconClients ==
    { [xff |-> "1.1.1.1", remote |-> "9.9.9.9", ua |-> "ua1"],
      [xff |-> "1.1.1.1", remote |-> "9.9.9.9", ua |-> Null],
      [xff |-> Null, remote |-> "9.9.9.9", ua |-> "ua1"],
      [xff |-> Null, remote |-> Null, ua |-> "ua1"] }

CreateBodies ==
    { [recipient |-> Null, subject |-> Null, sender |-> Null],
      [recipient |-> "", subject |-> "Hi", sender |-> Null],
      [recipient |-> "a@x.com", subject |-> "Hi", sender |-> Null] }

\* req.headers['x-forwarded-for'] || req.socket.remoteAddress || null
ClientIp(c) == Or(Or(c.xff, c.remote), Null)

\* a check that lets the empty string through
MissingRecipient_NullOnly(body) == body.recipient = Null

\* if (!recipient)
MissingRecipient(body) == Falsy(body.recipient)

\* the result of recordOpen when it returns null
NoOpen == [id |-> 0]

\* a handler that tells an unknown id from a known one
TrackResponse_Leaky(open) ==
    IF open.id = 0 THEN JsonResponse(404, [error |-> "Email not found"]) ELSE PixelResponse

\* what GET /track/:id.png sends once recordOpen has returned open
TrackResponse(open) == PixelResponse

\* handlers that yield between their storage calls
LoopIdle_Async == TRUE

\* Node runs one callback to completion before the next: the handlers are
\* synchronous functions over the synchronous better-sqlite3 API
LoopIdle == \A s \in Slots : reqs[s].st = "free"

Answer(route, req, resp, outcome) ==
    last' = [route |-> route, req |-> req, resp |-> resp, outcome |-> outcome]

\* ------------------------------------------------------------------ the page at load
Dialogs == 1..MaxDialogs

\* a dialog node the host has created and not yet filled or attached:
\* body is the identity of its message-body element, 0 for none
EmptyDialog == [attached |-> FALSE, body |-> 0, gen |-> 0, send |-> FALSE]

\* processedComposeWindows and composeWindowStates hold nothing of a node,
\* and the node has no toggle, no send listener, no observer and no timer
Unseen ==
    [processed |-> FALSE, tracking |-> "none", checked |-> FALSE, toggles |-> 0,
     listeners |-> 0, waiting |-> FALSE, timers |-> 0]

\* the content script has been loaded and has not run yet
ClientLoaded ==
    /\ dom = [n \in Dialogs |-> EmptyDialog]
    /\ ext = [n \in Dialogs |-> Unseen]
    /\ observing = FALSE
    /\ calls = <<>>
    /\ answered = <<>>
    /\ pixels = <<>>
    /\ notes = <<>>
    /\ sent = <<>>

Init ==
    /\ ClientLoaded
    /\ clock = StartClock
    /\ emails = <<>>
    /\ opens = <<>>
    /\ insertedAt = <<>>
    /\ reqs = [s \in Slots |-> FreeSlot]
    /\ last = [route |-> "none", req |-> NoRow, resp |-> NoRow, outcome |-> "none"]
    /\ plan = "unset"

\* time passes: d ticks
Advance(d) ==
    /\ clock + d <= MaxClock
    /\ clock' = clock + d
    /\ UNCHANGED <<emails, opens, insertedAt, reqs, last>>
    /\ UNCHANGED plan
    /\ UNCHANGED cvars

Tick == \E d \in Deltas : Advance(d)

\* GET /track/:id.png up to the dedup lookup of recordOpen: a client fetches
\* url, and the handler runs as far as the SELECT of a recent open
TrackLookup(s, url, c) ==
    LET id == RouteParam(UrlPath(url))
        ip == ClientIp(c)
        does == Decision(id, ip)
    IN
    /\ reqs[s].st = "free"
    /\ \A t \in Slots : t < s => reqs[t].st /= "free"
    /\ LoopIdle
    /\ \/ \* a storage statement throws: no route catches it
          /\ Answer("track", NoRow, UncaughtResponse, "fault")
          /\ UNCHANGED reqs
       \/ /\ does = "absent"
          /\ Answer("track", NoRow, TrackResponse(NoOpen), "unknown")
          /\ UNCHANGED reqs
       \/ /\ does = "deduped"
          /\ \E i \in RecentOpens(id, ip) :
                Answer("track",
                       [id |-> id, ip |-> ip, ua |-> Or(c.ua, Null), at |-> clock,
                        open |-> DedupedOpen(i, Or(c.ua, Null))],
                       TrackResponse(DedupedOpen(i, Or(c.ua, Null))), "deduped")
          /\ UNCHANGED reqs
       \/ /\ does = "insert"
          /\ Len(opens) + Cardinality({t \in Slots : reqs[t].st /= "free"}) < MaxOpens
          /\ reqs' = [reqs EXCEPT ![s] =
                        [st |-> "checked", id |-> id, ip |-> ip, ua |-> Or(c.ua, Null)]]
          /\ UNCHANGED last
    /\ UNCHANGED <<clock, emails, opens, insertedAt>>
    /\ UNCHANGED plan
    /\ UNCHANGED cvars

\* the INSERT of recordOpen, the read of the new row, and the response
TrackInsert(s) ==
    LET r == reqs[s]
        open == NewOpen(r.id, r.ip, r.ua)
    IN
    /\ r.st = "checked"
    /\ reqs' = [reqs EXCEPT ![s] = FreeSlot]
    /\ \/ \* the INSERT throws
          /\ Answer("track", NoRow, UncaughtResponse, "fault")
          /\ UNCHANGED <<opens, insertedAt>>
       \/ \* the SELECT of the new row throws
          /\ opens' = StoreOpen(open)
          /\ insertedAt' = Append(insertedAt, clock)
          /\ Answer("track", NoRow, UncaughtResponse, "fault")
       \/ /\ opens' = StoreOpen(open)
          /\ insertedAt' = Append(insertedAt, clock)
          /\ Answer("track", NoRow, TrackResponse(open), "recorded")
    /\ UNCHANGED <<clock, emails>>
    /\ UNCHANGED plan
    /\ UNCHANGED cvars

\* POST /api/emails
Create(body, bytes) ==
    LET id == generateTrackingId(bytes)
        email == NewEmail(id, body)
    IN
    /\ LoopIdle
    /\ Len(emails) < MaxEmails
    /\ IF MissingRecipient(body)
       THEN /\ Answer("create", body, JsonResponse(400, [error |-> "recipient is required"]), "invalid")
            /\ UNCHANGED emails
       ELSE \/ \* the INSERT throws
               /\ Answer("create", body, JsonResponse(500, [error |-> "Failed to create email"]), "fault")
               /\ UNCHANGED emails
            \/ \* the INSERT is done and the SELECT of getEmailById throws
               /\ PrimaryKeyFree(id)
               /\ emails' = Append(emails, email)
               /\ Answer("create", body, JsonResponse(500, [error |-> "Failed to create email"]), "fault")
            \/ /\ PrimaryKeyFree(id)
               /\ emails' = Append(emails, email)
               /\ Answer("create", body,
                         JsonResponse(201, [email |-> email, tracking_url |-> TrackingUrl(email.id)]),
                         "created")
    /\ UNCHANGED <<clock, opens, insertedAt, reqs>>
    /\ UNCHANGED plan
    /\ UNCHANGED cvars

\* GET /health
Health ==
    /\ Answer("health", NoRow, JsonResponse(200, [ok |-> TRUE]), "ok")
    /\ UNCHANGED <<clock, emails, opens, insertedAt, reqs>>
    /\ UNCHANGED plan
    /\ UNCHANGED cvars

\* GET /api/stats
Stats ==
    /\ LoopIdle
    /\ \/ Answer("stats", NoRow, JsonResponse(200, getStats), "ok")
       \/ Answer("stats", NoRow, JsonResponse(500, [error |-> "Failed to fetch stats"]), "fault")
    /\ UNCHANGED <<clock, emails, opens, insertedAt, reqs>>
    /\ UNCHANGED plan
    /\ UNCHANGED cvars

Next ==
    \/ Tick
    \/ \E s \in Slots, id \in RequestIds, c \in BeaconClients : TrackLookup(s, TrackingUrl(id), c)
    \/ \E s \in Slots : TrackInsert(s)
    \/ \E body \in CreateBodies, bytes \in RandomBytes8 : Create(body, bytes)

Spec == Init /\ [][Next]_vars

\* ------------------------------------------------------------------ statistics
\* GET /api/stats reads the store and changes nothing: it is checked on its
\* own, over stores larger than the ones Spec builds up request by request
\* the id of the i-th message of a store of many
NthBytes(i) == <<0, 0, 0, 0, 0, 0, i \div 256, i % 256>>

\* a store of n messages, created in one second, of which the first k were
\* opened once from one address, and the first also from another when twice:
\* every k for the stores of up to StatsMaxEmails messages, all or all but one
\* opened for the larger ones
InitStats ==
    \E n \in 0..StatsLargeEmails, k \in 0..StatsLargeEmails, twice \in BOOLEAN :
        /\ k <= n
        /\ n > StatsMaxEmails => k >= n - 1
        /\ twice => k >= 1
        /\ ClientLoaded
        /\ clock = StartClock
        /\ emails = [i \in 1..n |->
                       NewEmail(generateTrackingId(NthBytes(i)),
                                [recipient |-> "a@x.com", subject |-> "Hi", sender |-> Null])]
        /\ opens = [i \in 1..(k + (IF twice THEN 1 ELSE 0)) |->
                      [id |-> i,
                       email_id |-> generateTrackingId(NthBytes(IF i <= k THEN i ELSE 1)),
                       opened_at |-> SqlNow,
                       ip_address |-> IF i <= k THEN "1.1.1.1" ELSE "9.9.9.9",
                       user_agent |-> Null]]
        /\ insertedAt = [i \in 1..(k + (IF twice THEN 1 ELSE 0)) |-> StartClock]
        /\ reqs = [s \in Slots |-> FreeSlot]
        /\ last = [route |-> "none", req |-> NoRow, resp |-> NoRow, outcome |-> "none"]
        /\ plan = "unset"

NextStats == Stats

SpecStats == InitStats /\ [][NextStats]_vars

\* ------------------------------------------------------------------ read routes
\* GET /api/emails and GET /api/emails/:id read the store and change nothing:
\* they are checked over stores that creates and beacon fetches can leave
MaxReadEmails == 3
MaxReadOpens == 3

\* the orders in which the rows idx of a table can come out of a query
Orders(idx) ==
    { p \in [1..Cardinality(idx) -> idx] :
        \A k, l \in 1..Cardinality(idx) : k /= l => p[k] /= p[l] }

\* SQL leaves open in which order rows of equal sort key come out; SQLite
\* emits them in the order its plan for the query meets them, the same on
\* every run of the query: in the order of the rows, or in the reverse order
ScanPlans == {"forward", "backward"}

\* a plan chosen anew for every query
PlanChoices_PerQuery == ScanPlans

\* the plans a query can run under: any until the first query has run
PlanChoices == IF plan = "unset" THEN ScanPlans ELSE {plan}

\* row a comes out before row b of the same sort key under plan pl
TieBefore(pl, a, b) == IF pl = "forward" THEN a < b ELSE a > b

\* ORDER BY e.created_at DESC
ListOrders(pl) ==
    { p \in Orders(1..Len(emails)) :
        \A k, l \in 1..Len(p) :
            k < l => \/ emails[p[k]].created_at > emails[p[l]].created_at
                     \/ /\ emails[p[k]].created_at = emails[p[l]].created_at
                        /\ TieBefore(pl, p[k], p[l]) }

\* ORDER BY opened_at DESC, over the opens of one message
OpenOrders(id, pl) ==
    { p \in Orders(OpensFor(id)) :
        \A k, l \in 1..Len(p) :
            k < l => \/ opens[p[k]].opened_at > opens[p[l]].opened_at
                     \/ /\ opens[p[k]].opened_at = opens[p[l]].opened_at
                        /\ TieBefore(pl, p[k], p[l]) }

\* a listing that joins instead of left-joining
getAllEmails_InnerJoin(p) ==
    SelectSeq([k \in 1..Len(emails) |->
                  [email |-> emails[p[k]], open_count |-> OpenCount(emails[p[k]].id)]],
              LAMBDA row : row.open_count > 0)

\* SELECT e.*, COUNT(o.id) ... LEFT JOIN ... GROUP BY e.id ORDER BY e.created_at DESC
getAllEmails(p) ==
    [k \in 1..Len(emails) |->
        [email |-> emails[p[k]], open_count |-> OpenCount(emails[p[k]].id)]]

\* a detail that does not check that the message exists
getEmailWithOpens_NoCheck(id, p) ==
    [id |-> id, email |-> getEmailById(id),
     opens |-> [k \in 1..Len(p) |-> opens[p[k]]], open_count |-> Len(p)]

\* getEmailWithOpens: no row for an unknown id, else the message, its opens in
\* the order p, and their number
getEmailWithOpens(id, p) ==
    IF ~IsRow(getEmailById(id)) THEN NoRow
    ELSE [id |-> id, email |-> getEmailById(id),
          opens |-> [k \in 1..Len(p) |-> opens[p[k]]], open_count |-> Len(p)]

\* GET /api/emails
List ==
    /\ LoopIdle
    /\ \/ \E pl \in PlanChoices :
            /\ plan' = pl
            /\ \E p \in ListOrders(pl) :
                  Answer("list", NoRow, JsonResponse(200, getAllEmails(p)), "ok")
       \/ /\ Answer("list", NoRow, JsonResponse(500, [error |-> "Failed to fetch emails"]), "fault")
          /\ UNCHANGED plan
    /\ UNCHANGED <<clock, emails, opens, insertedAt, reqs>>
    /\ UNCHANGED cvars

\* GET /api/emails/:id
Detail(id) ==
    /\ LoopIdle
    /\ \/ \E pl \in PlanChoices :
            /\ plan' = pl
            /\ \E p \in OpenOrders(id, pl) :
                  LET email == getEmailWithOpens(id, p) IN
                  IF ~IsRow(email)
                  THEN Answer("detail", [id |-> id],
                              JsonResponse(404, [error |-> "Email not found"]), "absent")
                  ELSE Answer("detail", [id |-> id], JsonResponse(200, email), "ok")
       \/ /\ Answer("detail", [id |-> id], JsonResponse(500, [error |-> "Failed to fetch email"]), "fault")
          /\ UNCHANGED plan
    /\ UNCHANGED <<clock, emails, opens, insertedAt, reqs>>
    /\ UNCHANGED cvars

ReadIds == {generateTrackingId(NthBytes(i)) : i \in 1..MaxReadEmails} \cup {BogusId}

ReadIps == {"1.1.1.1", "9.9.9.9"}

\* a store of n messages created in seconds 0 and 1 and m opens stored in
\* seconds 1 and 61, as creates and beacon fetches leave it: creation and open
\* stamps never decrease, and no key has two opens less than a window apart
InitRead ==
    \E n \in 0..MaxReadEmails, m \in 0..MaxReadOpens :
      \E ca \in [1..n -> {0, 1}], oe \in [1..m -> 1..n], oi \in [1..m -> ReadIps],
         oa \in [1..m -> {1, 1 + DedupWindowSeconds}] :
        /\ \A i, j \in 1..n : i < j => ca[i] <= ca[j]
        /\ \A i, j \in 1..m : i < j => oa[i] <= oa[j]
        /\ \A i, j \in 1..m : (i < j /\ oe[i] = oe[j] /\ oi[i] = oi[j])
                                 => oa[j] - oa[i] >= DedupWindowSeconds
        /\ ClientLoaded
        /\ clock = (1 + DedupWindowSeconds) * TicksPerSec
        /\ emails = [i \in 1..n |->
                       [id |-> generateTrackingId(NthBytes(i)), recipient |-> "a@x.com",
                        subject |-> "Hi", sender |-> Null, created_at |-> ca[i]]]
        /\ opens = [i \in 1..m |->
                      [id |-> i, email_id |-> generateTrackingId(NthBytes(oe[i])),
                       opened_at |-> oa[i], ip_address |-> oi[i], user_agent |-> Null]]
        /\ insertedAt = [i \in 1..m |-> oa[i] * TicksPerSec]
        /\ reqs = [s \in Slots |-> FreeSlot]
        /\ last = [route |-> "none", req |-> NoRow, resp |-> NoRow, outcome |-> "none"]
        /\ plan = "unset"

NextRead ==
    \/ List
    \/ \E id \in ReadIds : Detail(id)

SpecRead == InitRead /\ [][NextRead]_vars

\* ------------------------------------------------------------------ all routes
\* every route of the service, over the stores the requests build up; time
\* passes a window and a second at a time
NextAll ==
    \/ Advance((DedupWindowSeconds + 1) * TicksPerSec)
    \/ \E s \in Slots, id \in RequestIds, c \in BeaconClients : TrackLookup(s, TrackingUrl(id), c)
    \/ \E s \in Slots : TrackInsert(s)
    \/ \E body \in CreateBodies, bytes \in RandomBytes8 : Create(body, bytes)
    \/ List
    \/ \E id \in RequestIds : Detail(id)
    \/ Stats
    \/ Health

SpecAll == Init /\ [][NextAll]_vars

\* ------------------------------------------------------------------ content script
\* findComposeElements: the message body and the send control of a dialog, as
\* far as the selectors locate them (0 and FALSE when they do not)
findComposeElements(d) == [messageBody |-> d.body, sendButton |-> d.send]

\* processComposeWindow without its look into processedComposeWindows
processComposeWindow_NoGuard(e, d) ==
    IF findComposeElements(d).messageBody = 0 THEN e
    ELSE [e EXCEPT !.processed = TRUE,
                   !.tracking = "on",
                   !.checked = TRUE,
                   !.toggles = @ + 1,
                   !.listeners = IF findComposeElements(d).sendButton THEN @ + 1 ELSE @,
                   !.waiting = ~findComposeElements(d).sendButton]

\* processComposeWindow without its test of the message body
processComposeWindow_NoBodyCheck(e, d) ==
    IF e.processed THEN e
    ELSE [e EXCEPT !.processed = TRUE,
                   !.tracking = "on",
                   !.checked = TRUE,
                   !.toggles = @ + 1,
                   !.listeners = IF findComposeElements(d).sendButton THEN @ + 1 ELSE @,
                   !.waiting = ~findComposeElements(d).sendButton]

\* processComposeWindow run on a node with bookkeeping e and content d
processComposeWindow(e, d) ==
    IF e.processed THEN e
    ELSE IF findComposeElements(d).messageBody = 0 THEN e
    ELSE [e EXCEPT !.processed = TRUE,
                   !.tracking = "on",
                   !.checked = TRUE,
                   !.toggles = @ + 1,
                   !.listeners = IF findComposeElements(d).sendButton THEN @ + 1 ELSE @,
                   !.waiting = ~findComposeElements(d).sendButton]

\* the callback of the observer processComposeWindow leaves on a dialog whose
\* send control it did not find, run after a mutation inside the dialog
SendObserved(e, d) ==
    IF e.waiting /\ findComposeElements(d).sendButton
    THEN [e EXCEPT !.listeners = @ + 1, !.waiting = FALSE]
    ELSE e

\* the callback of the page observer for one added node: a deferred check is
\* scheduled when the added node is a dialog, none for any other node
PageObserved(e, added) ==
    IF observing /\ added = "dialog" THEN [e EXCEPT !.timers = @ + 1] ELSE e

\* observeGmail: the dialogs in the page are processed, the observer installed
Start ==
    /\ ~observing
    /\ observing' = TRUE
    /\ ext' = [n \in Dialogs |->
                 IF dom[n].attached THEN processComposeWindow(ext[n], dom[n]) ELSE ext[n]]
    /\ UNCHANGED <<dom, calls, answered, pixels, notes, sent>>
    /\ UNCHANGED svars

\* setTimeout(() => processComposeWindow(node), 500) comes due
TimerFires(n) ==
    /\ ext[n].timers > 0
    /\ ext' = [ext EXCEPT ![n] = processComposeWindow([ext[n] EXCEPT !.timers = @ - 1], dom[n])]
    /\ UNCHANGED <<dom, observing, calls, answered, pixels, notes, sent>>
    /\ UNCHANGED svars

\* the host puts a dialog node into the page; the page observer's callback
\* runs before any other task
HostAttach(n) ==
    /\ ~dom[n].attached
    /\ ext[n].timers < MaxTimers
    /\ dom' = [dom EXCEPT ![n].attached = TRUE]
    /\ ext' = [ext EXCEPT ![n] = PageObserved(ext[n], "dialog")]
    /\ UNCHANGED <<observing, calls, answered, pixels, notes, sent>>
    /\ UNCHANGED svars

\* the host takes a dialog node out of the page
HostDetach(n) ==
    /\ dom[n].attached
    /\ dom' = [dom EXCEPT ![n].attached = FALSE]
    /\ UNCHANGED <<ext, observing, calls, answered, pixels, notes, sent>>
    /\ UNCHANGED svars

\* the host renders the message body inside a dialog
HostInsertBody(n) ==
    /\ dom[n].body = 0
    /\ dom[n].gen < MaxBodyGen
    /\ dom' = [dom EXCEPT ![n].body = dom[n].gen + 1, ![n].gen = dom[n].gen + 1]
    /\ ext' = [ext EXCEPT ![n] =
                 SendObserved(IF dom[n].attached THEN PageObserved(ext[n], "body") ELSE ext[n],
                              dom'[n])]
    /\ UNCHANGED <<observing, calls, answered, pixels, notes, sent>>
    /\ UNCHANGED svars

\* the host removes the message body of a dialog
HostRemoveBody(n) ==
    /\ dom[n].body /= 0
    /\ dom' = [dom EXCEPT ![n].body = 0]
    /\ ext' = [ext EXCEPT ![n] = SendObserved(ext[n], dom'[n])]
    /\ UNCHANGED <<observing, calls, answered, pixels, notes, sent>>
    /\ UNCHANGED svars

\* the host renders the send control inside a dialog
HostInsertSend(n) ==
    /\ ~dom[n].send
    /\ dom' = [dom EXCEPT ![n].send = TRUE]
    /\ ext' = [ext EXCEPT ![n] =
                 SendObserved(IF dom[n].attached THEN PageObserved(ext[n], "button") ELSE ext[n],
                              dom'[n])]
    /\ UNCHANGED <<observing, calls, answered, pixels, notes, sent>>
    /\ UNCHANGED svars

\* a change listener that stores the opposite of the checkbox
ChangeListener_Inverted(e, checked) ==
    IF e.tracking = "none" THEN "none" ELSE IF checked THEN "off" ELSE "on"

\* the change listener of the toggle's checkbox: the flag it leaves in
\* composeWindowStates for a node with bookkeeping e
ChangeListener(e, checked) ==
    IF e.tracking = "none" THEN "none" ELSE IF checked THEN "on" ELSE "off"

\* the user flips the checkbox of a toggle, and its change listener runs
UserToggle(n) ==
    /\ ext[n].toggles > 0
    /\ ext' = [ext EXCEPT ![n].checked = ~ext[n].checked,
                          ![n].tracking = ChangeListener(ext[n], ~ext[n].checked)]
    /\ UNCHANGED <<dom, observing, calls, answered, pixels, notes, sent>>
    /\ UNCHANGED svars

\* what the recipient chips and the To input of a dialog hold at a click
ComposeInputs ==
    { [chips |-> << <<"b", "o", "b">> >>, to |-> <<"b", "o", "b">>],
      [chips |-> << <<"a", "@", "x">>, <<"a", "@", "x">> >>, to |-> <<"c", "@", "y">>] }

\* email.includes('@')
HasAt(v) == \E i \in 1..Len(v) : v[i] = "@"

\* [...new Set(emails)]
RECURSIVE Dedup(_)
Dedup(vs) ==
    IF vs = <<>> THEN <<>>
    ELSE LET rest == Dedup(SubSeq(vs, 1, Len(vs) - 1)) IN
         IF \E i \in 1..Len(rest) : rest[i] = vs[Len(vs)] THEN rest
         ELSE Append(rest, vs[Len(vs)])

\* getRecipients without its test for an address
getRecipients_NoFilter(in) == Dedup(in.chips \o <<in.to>>)

\* getRecipients
getRecipients(in) ==
    Dedup(SelectSeq(in.chips, HasAt) \o (IF HasAt(in.to) THEN <<in.to>> ELSE <<>>))

\* a listener that does not read the flag
TrackingOn_Always(e) == TRUE

\* const state = composeWindowStates.get(composeWindow); state && state.trackingEnabled
TrackingOn(e) == e.tracking = "on"

\* a listener that sends one Create call for each recipient
ClickCalls_PerRecipient(n, in, click) ==
    IF ~TrackingOn(ext[n]) THEN <<>>
    ELSE [r \in 1..Len(getRecipients(in)) |->
            [click |-> click, node |-> n,
             body |-> findComposeElements(dom[n]).messageBody,
             recipients |-> getRecipients(in)]]

\* the click listener of interceptSendButton up to its await: the Create calls
\* one listener sends for click number click on dialog n
ClickCalls(n, in, click) ==
    IF ~TrackingOn(ext[n]) THEN <<>>
    ELSE IF Len(getRecipients(in)) = 0 THEN <<>>
    ELSE << [click |-> click, node |-> n,
             body |-> findComposeElements(dom[n]).messageBody,
             recipients |-> getRecipients(in)] >>

RECURSIVE Times(_, _)
Times(k, seq) == IF k = 0 THEN <<>> ELSE seq \o Times(k - 1, seq)

\* the image references in the message body of dialog n
BodyPixels(n) ==
    SelectSeq(pixels, LAMBDA px : px.node = n /\ px.elem = dom[n].body)

\* a listener that holds the click back while its Create call is out
ListenerBlocks_Awaiting(n, in) == TrackingOn(ext[n]) /\ Len(getRecipients(in)) > 0

\* the listener calls neither preventDefault nor stopPropagation, and returns
\* to the dispatch of the click at its first await
ListenerBlocks(n, in) == FALSE

\* a click on the send control of a dialog: the listeners bound to the control
\* run as far as their await, then the host's own handler sends the message
UserClick(n, in) ==
    /\ dom[n].attached
    /\ dom[n].send
    /\ Len(sent) < MaxClicks
    /\ calls' = calls \o Times(ext[n].listeners, ClickCalls(n, in, Len(sent) + 1))
    /\ sent' = Append(sent, [node |-> n, tracking |-> ext[n].tracking,
                             inputs |-> in,
                             listeners |-> ext[n].listeners,
                             delivered |-> ~(ext[n].listeners > 0 /\ ListenerBlocks(n, in)),
                             beacons |-> [j \in 1..Len(BodyPixels(n)) |-> BodyPixels(n)[j].src]])
    /\ UNCHANGED <<dom, ext, observing, answered, pixels, notes>>
    /\ UNCHANGED svars

\* how createTrackedEmail ends: it resolves to the created message with its
\* beacon URL, to a result without one, or to null after a failure reported
\* to its callback; or chrome.runtime.sendMessage throws in the promise's
\* executor and the promise is rejected
CreateResults(k) ==
    { [ok |-> TRUE, threw |-> FALSE,
       tracking_url |-> TrackingUrl(generateTrackingId(NthBytes(k)))],
      [ok |-> TRUE, threw |-> FALSE, tracking_url |-> <<>>],
      [ok |-> FALSE, threw |-> FALSE, tracking_url |-> <<>>],
      [ok |-> FALSE, threw |-> TRUE, tracking_url |-> <<>>] }

\* trackedEmail && trackedEmail.tracking_url
HasBeaconUrl(res) == res.ok /\ res.tracking_url /= <<>>

\* an injection that looks at the flag once more
injectTrackingPixel_IfStillOn(call, url) ==
    IF call.body = 0 \/ ext[call.node].tracking /= "on" THEN <<>>
    ELSE << [node |-> call.node, elem |-> call.body, src |-> url] >>

\* an injection that appends the image twice
injectTrackingPixel_Twice(call, url) ==
    IF call.body = 0 THEN <<>>
    ELSE << [node |-> call.node, elem |-> call.body, src |-> url],
            [node |-> call.node, elem |-> call.body, src |-> url] >>

\* injectTrackingPixel: nothing is appended to a body that was not found
injectTrackingPixel(call, url) ==
    IF call.body = 0 THEN <<>>
    ELSE << [node |-> call.node, elem |-> call.body, src |-> url] >>

\* showNotification calls of the listener after its await: none when the
\* await throws, which the listener does not catch
Notifications(call, res) ==
    IF res.threw THEN <<>>
    ELSE IF HasBeaconUrl(res)
    THEN IF injectTrackingPixel(call, res.tracking_url) /= <<>>
         THEN << [type |-> "success", click |-> call.click] >>
         ELSE <<>>
    ELSE << [type |-> "error", click |-> call.click] >>

\* the Create call i is answered and its listener runs to its end
CreateAnswered(i, res) ==
    /\ i \in 1..Len(calls)
    /\ calls' = SubSeq(calls, 1, i - 1) \o SubSeq(calls, i + 1, Len(calls))
    /\ answered' = Append(answered, [call |-> calls[i], result |-> res])
    /\ pixels' = IF HasBeaconUrl(res)
                 THEN pixels \o injectTrackingPixel(calls[i], res.tracking_url)
                 ELSE pixels
    /\ notes' = notes \o Notifications(calls[i], res)
    /\ UNCHANGED <<dom, ext, observing, sent>>
    /\ UNCHANGED svars

NextClient ==
    \/ Start
    \/ \E n \in Dialogs : TimerFires(n)
    \/ \E n \in Dialogs : HostAttach(n)
    \/ \E n \in Dialogs : HostDetach(n)
    \/ \E n \in Dialogs : HostInsertBody(n)
    \/ \E n \in Dialogs : HostRemoveBody(n)
    \/ \E n \in Dialogs : HostInsertSend(n)
    \/ \E n \in Dialogs : UserToggle(n)
    \/ \E n \in Dialogs, in \in ComposeInputs : UserClick(n, in)
    \/ \E i \in 1..MaxClicks, res \in CreateResults(Len(answered) + 1) : CreateAnswered(i, res)

SpecClient == Init /\ [][NextClient]_vars

\* the browser runs the script it has loaded and every timer that comes due
SpecClientFair ==
    /\ SpecClient
    /\ WF_vars(Start)
    /\ \A n \in Dialogs : WF_vars(TimerFires(n))

\* ------------------------------------------------------------------ properties
PresentIps == {ClientIp(c) : c \in BeaconClients} \ {Null}

\* the stored opens of one dedup key
KeyOpens(id, ip) ==
    {i \in 1..Len(opens) : opens[i].email_id = id /\ opens[i].ip_address = ip}

NoRecipient(body) == body.recipient = Null \/ body.recipient = ""

C2_NoTwoOpensWithinWindow ==
    \A i, j \in 1..Len(opens) :
        (/\ i < j
         /\ opens[i].email_id = opens[j].email_id
         /\ opens[i].ip_address /= Null
         /\ opens[i].ip_address = opens[j].ip_address)
            => opens[j].opened_at - opens[i].opened_at >= 60

C2_Witness ==
    \E i, j \in 1..Len(opens) :
        /\ i < j
        /\ opens[i].email_id = opens[j].email_id
        /\ opens[i].ip_address /= Null
        /\ opens[i].ip_address = opens[j].ip_address

\* C3.  The lookup and the insert of recordOpen are one step to every other
\* request: while a handler is between the two, no other handler is, and the
\* store still holds no recent open of its key, so no two fetches both insert.
C3_LookupAndInsertAtomic ==
    \A s \in Slots :
        reqs[s].st = "checked" =>
            /\ \A t \in Slots \ {s} : reqs[t].st /= "checked"
            /\ reqs[s].id \in EmailIds
            /\ \A i \in KeyOpens(reqs[s].id, reqs[s].ip) :
                   reqs[s].ip /= Null => opens[i].opened_at <= (clock \div TicksPerSec) - 60

\* a handler between its lookup and its insert, for a key that has an open stored
C3_Witness ==
    \E s \in Slots :
        /\ reqs[s].st = "checked"
        /\ reqs[s].ip /= Null
        /\ KeyOpens(reqs[s].id, reqs[s].ip) /= {}

\* C4.  A beacon fetch is answered 200 with the same transparent PNG, content
\* type and no-store cache headers whether its id is unknown, its open is
\* recorded or its open is deduplicated.
C4_SameResponseInAllCases ==
    (last.route = "track" /\ last.outcome \in {"unknown", "recorded", "deduped"})
        => last.resp = [status |-> 200,
                        type |-> "image/png",
                        cache |-> "no-store, no-cache, must-revalidate, proxy-revalidate",
                        body |-> TRANSPARENT_PNG]

\* all three cases have happened: a message exists, an open of it is stored,
\* and the last fetch was deduplicated
C4_Witness ==
    /\ last.route = "track"
    /\ last.outcome = "deduped"
    /\ last.resp.status = 200
    /\ Len(opens) >= 1

\* C5.  Every beacon request is answered 200 with the transparent pixel, also
\* when a storage operation of recordOpen throws.
C5_BeaconAlways200 ==
    last.route = "track" => (last.resp.status = 200 /\ last.resp.body = TRANSPARENT_PNG)

\* C6.  recordOpen for a messageId that matches no stored message returns
\* absent and changes nothing: no open is stored or about to be stored for it,
\* and the step that answers such a fetch leaves both tables as they were.
C6_UnknownIdLeavesStoreUnchanged ==
    /\ [](/\ \A i \in 1..Len(opens) : opens[i].email_id \in EmailIds
          /\ \A s \in Slots : reqs[s].st = "checked" => reqs[s].id \in EmailIds
          /\ \A id \in RequestIds \ EmailIds, c \in BeaconClients :
                 Decision(id, ClientIp(c)) = "absent")
    /\ [][(last' /= last /\ last'.route = "track" /\ last'.outcome = "unknown")
             => (emails' = emails /\ opens' = opens /\ reqs' = reqs)]_vars

\* an unknown id fetched from a store that holds a message and an open
C6_Witness ==
    /\ last.outcome = "unknown"
    /\ Len(emails) >= 1
    /\ Len(opens) >= 1

\* C7.  No two stored messages share an id, every id is 16 characters of
\* [0-9a-f], and the id a create returns is the id of the row it added.
C7_IdsUniqueHex16 ==
    /\ \A i, j \in 1..Len(emails) : i /= j => emails[i].id /= emails[j].id
    /\ \A i \in 1..Len(emails) :
        /\ Len(emails[i].id) = 16
        /\ \A k \in 1..Len(emails[i].id) :
               emails[i].id[k] \in {"0", "1", "2", "3", "4", "5", "6", "7", "8", "9",
                                    "a", "b", "c", "d", "e", "f"}
    /\ (last.route = "create" /\ last.resp.status = 201)
          => last.resp.body.email.id = emails[Len(emails)].id

\* two creates have succeeded
C7_Witness == Len(emails) = 2 /\ last.outcome = "created"

\* C8.  A create whose body has no recipient, or an empty one, is answered 400
\* with the error "recipient is required", and leaves the store unchanged.
C8_MissingRecipientRejected ==
    /\ []((last.route = "create" /\ NoRecipient(last.req))
            => (/\ last.resp.status = 400
                /\ last.resp.body = [error |-> "recipient is required"]))
    /\ [][(last' /= last /\ last'.route = "create" /\ NoRecipient(last'.req))
             => (emails' = emails /\ opens' = opens)]_vars

\* an empty recipient rejected by a store that holds a message
C8_Witness ==
    /\ last.route = "create"
    /\ last.req.recipient = ""
    /\ last.resp.status = 400
    /\ Len(emails) >= 1

\* the beacon URL of a stored message, spelled out
BeaconUrlOf(id) ==
    <<"h", "t", "t", "p", ":", "/", "/", "l", "o", "c", "a", "l", "h", "o", "s", "t",
      ":", "8", "0", "8", "0", "/", "t", "r", "a", "c", "k", "/">> \o id \o <<".", "p", "n", "g">>

\* C9, as amended.  A create with a non-empty recipient is answered 201, or 500
\* when a storage statement throws (the INSERT of a taken id among them).  When
\* 201 it adds exactly one message and returns tracking_url =
\* {publicBase}/track/{id}.png for the id of that message; when 500 it adds
\* at most one and returns none.  A fetch of that URL is looked up under that id, the first fetch of it
\* is never deduplicated, and the open a fetch stores raises the open count of
\* that message by one and of no other.
C9_CreateThenFirstFetch ==
    /\ []((last.route = "create" /\ ~NoRecipient(last.req))
            => (/\ last.resp.status \in {201, 500}
                /\ last.resp.status = 201 =>
                      /\ last.resp.body.email = emails[Len(emails)]
                      /\ last.resp.body.tracking_url = BeaconUrlOf(emails[Len(emails)].id)))
    /\ [](\A id \in EmailIds :
            /\ RouteParam(UrlPath(BeaconUrlOf(id))) = id
            /\ OpenCount(id) = 0 => \A c \in BeaconClients : Decision(id, ClientIp(c)) = "insert")
    /\ [][(last' /= last /\ last'.route = "create" /\ ~NoRecipient(last'.req))
             => IF last'.resp.status = 201
                THEN emails' = Append(emails, last'.resp.body.email)
                ELSE (emails' = emails \/ (Len(emails') = Len(emails) + 1
                                            /\ SubSeq(emails', 1, Len(emails)) = emails))]_vars
    /\ [][\A s \in Slots :
             (reqs[s].st = "checked" /\ opens' /= opens)
                => (/\ Len(opens') = Len(opens) + 1
                    /\ opens'[Len(opens')].email_id = reqs[s].id
                    /\ SubSeq(opens', 1, Len(opens)) = opens
                    /\ emails' = emails)]_vars

\* C9 as stated: every create with a non-empty recipient is answered 201.
C9_Original ==
    (last.route = "create" /\ ~NoRecipient(last.req)) => last.resp.status = 201

\* the first fetch of the second message's URL is recorded for it alone
C9_Witness ==
    /\ last.outcome = "recorded"
    /\ Len(emails) = 2
    /\ OpenCount(emails[2].id) = 1
    /\ OpenCount(emails[1].id) = 0

\* C10.  getStats returns the counts of the store and openRatePercent =
\* round(100 * messagesWithAtLeastOneOpen / totalMessages), halves up, and 0
\* for all four when the store holds no message.
C10_StatsExact ==
    (last.route = "stats" /\ last.resp.status = 200)
        => LET t == Len(emails)
               e == Cardinality({opens[i].email_id : i \in 1..Len(opens)})
           IN /\ last.resp.body.total_emails = t
              /\ last.resp.body.total_opens = Len(opens)
              /\ last.resp.body.emails_opened = e
              /\ last.resp.body.open_rate = (IF t = 0 THEN 0 ELSE (200 * e + t) \div (2 * t))

\* the place of the message id in the order of creation
CreatedNth(id) == CHOOSE i \in 1..Len(emails) : emails[i].id = id

\* C11.  The listing holds every stored message exactly once, and a message
\* whose create completed before another's began is listed after it.
C11_ListNewestFirst ==
    (last.route = "list" /\ last.resp.status = 200)
        => LET rows == last.resp.body IN
           /\ Len(rows) = Len(emails)
           /\ \A i \in 1..Len(emails) : \E k \in 1..Len(rows) : rows[k].email = emails[i]
           /\ \A k, l \in 1..Len(rows) :
                  k < l => CreatedNth(rows[k].email.id) > CreatedNth(rows[l].email.id)

\* C12.  Every stored message is in the listing, with or without opens, and the
\* open_count of each row is the number of stored opens of that message.
C12_ListOpenCounts ==
    (last.route = "list" /\ last.resp.status = 200)
        => LET rows == last.resp.body IN
           /\ \A i \in 1..Len(emails) : \E k \in 1..Len(rows) : rows[k].email.id = emails[i].id
           /\ \A k \in 1..Len(rows) :
                  rows[k].open_count =
                      Cardinality({i \in 1..Len(opens) : opens[i].email_id = rows[k].email.id})

\* a listing with a message without opens and a message with two
C12_Witness ==
    /\ last.route = "list"
    /\ last.resp.status = 200
    /\ \E k, l \in 1..Len(last.resp.body) :
          last.resp.body[k].open_count = 0 /\ last.resp.body[l].open_count = 2

\* C13.  The detail of a stored message holds exactly the stored opens of that
\* message, an open recorded later before every open recorded earlier, and
\* open_count is their number.
C13_DetailNewestFirst ==
    (last.route = "detail" /\ last.resp.status = 200)
        => LET d == last.resp.body IN
           /\ {d.opens[k] : k \in 1..Len(d.opens)}
                 = {opens[i] : i \in {j \in 1..Len(opens) : opens[j].email_id = last.req.id}}
           /\ d.open_count = Len(d.opens)
           /\ \A k, l \in 1..Len(d.opens) : k /= l => d.opens[k] /= d.opens[l]
           /\ \A k, l \in 1..Len(d.opens) : k < l => d.opens[k].id > d.opens[l].id

CallsOfClick(k) ==
    {i \in 1..Len(calls) : calls[i].click = k}

AnsweredOfClick(k) ==
    {i \in 1..Len(answered) : answered[i].call.click = k}

\* the image references appended for click number k
PixelsOfClick(k) ==
    {j \in 1..Len(pixels) :
        \E i \in AnsweredOfClick(k) : answered[i].result.tracking_url = pixels[j].src}

NotesOfClick(k) == {j \in 1..Len(notes) : notes[j].click = k}

\* no chip and no To value of the inputs holds an address
NoRecipientResolved(in) ==
    /\ \A c \in 1..Len(in.chips) : \A i \in 1..Len(in.chips[c]) : in.chips[c][i] /= "@"
    /\ \A i \in 1..Len(in.to) : in.to[i] /= "@"

\* C15.  Whatever the order of the initial scan, the mutation callbacks and the
\* deferred checks of a node, a compose surface has at most one tracking
\* toggle and at most one send-click listener.
C15_ProcessedAtMostOnce ==
    \A n \in Dialogs : ext[n].toggles <= 1 /\ ext[n].listeners <= 1

\* a surface with its toggle and its listener and two more checks of it pending
C15_Witness ==
    \E n \in Dialogs :
        ext[n].toggles = 1 /\ ext[n].listeners = 1 /\ ext[n].timers = 2

\* C16.  A dialog in which no message body has been located has no tracking
\* toggle, no session state and no send listener, and is not marked processed.
C16_NoBodyNotProcessed ==
    \A n \in Dialogs :
        dom[n].gen = 0 =>
            /\ ext[n].toggles = 0
            /\ ext[n].tracking = "none"
            /\ ext[n].listeners = 0
            /\ ~ext[n].processed
            /\ ~ext[n].waiting

\* a dialog with a send control and no body is in the page, and every check
\* of it has run
C16_Witness ==
    \E n \in Dialogs :
        /\ observing
        /\ dom[n].attached
        /\ dom[n].send
        /\ dom[n].gen = 0
        /\ ext[n].timers = 0

\* C17.  A dialog in the page whose message body is inserted after it was
\* checked without one is eventually qualified and gets its toggle, unless it
\* leaves the page or loses the body first.
C17_RecheckedOnMutation ==
    \A n \in Dialogs :
        (observing /\ dom[n].attached /\ dom[n].body /= 0 /\ ~ext[n].processed)
            ~> (ext[n].toggles > 0 \/ ~dom[n].attached \/ dom[n].body = 0)

\* C18.  A click made while the surface's flag is off issues no Create
\* request, appends nothing to the body and shows no notification, and the
\* host sends the message as it is.
C18_DisabledClickDoesNothing ==
    \A k \in 1..Len(sent) :
        sent[k].tracking /= "on" =>
            /\ CallsOfClick(k) = {}
            /\ AnsweredOfClick(k) = {}
            /\ PixelsOfClick(k) = {}
            /\ NotesOfClick(k) = {}

\* a surface with a send listener and a recipient, switched off, was clicked
C18_Witness ==
    \E k \in 1..Len(sent) :
        /\ sent[k].tracking = "off"
        /\ sent[k].listeners = 1
        /\ ~NoRecipientResolved(sent[k].inputs)

\* C19.  A click made with tracking on and no recipient resolved issues no
\* Create request and does not modify the body; the host sends the message.
C19_NoRecipientNoCreate ==
    \A k \in 1..Len(sent) :
        (sent[k].tracking = "on" /\ NoRecipientResolved(sent[k].inputs)) =>
            /\ CallsOfClick(k) = {}
            /\ AnsweredOfClick(k) = {}
            /\ PixelsOfClick(k) = {}

\* a tracked surface with a send listener was clicked with a chip and a To
\* value that hold no address
C19_Witness ==
    \E k \in 1..Len(sent) :
        /\ sent[k].tracking = "on"
        /\ sent[k].listeners = 1
        /\ sent[k].inputs.chips /= <<>>
        /\ NoRecipientResolved(sent[k].inputs)

\* C20, as amended.  When the Create call of a tracked click succeeds with a
\* beacon URL and a message body was located in the surface at the click,
\* exactly one image reference with that URL is appended to that body element
\* and a success notification is shown; when no body was located at the click,
\* nothing is appended and no success notification is shown.
C20_SuccessInjectsOnce ==
    \A i \in 1..Len(answered) :
        LET a == answered[i]
            imgs == {j \in 1..Len(pixels) : pixels[j].src = a.result.tracking_url}
            shown == {j \in 1..Len(notes) :
                        notes[j].click = a.call.click /\ notes[j].type = "success"}
        IN (a.result.ok /\ a.result.tracking_url /= <<>>) =>
              IF a.call.body /= 0
              THEN /\ Cardinality(imgs) = 1
                   /\ \A j \in imgs : pixels[j].node = a.call.node /\ pixels[j].elem = a.call.body
                   /\ Cardinality(shown) >= 1
              ELSE imgs = {} /\ shown = {}

\* C20 as stated: every Create call that succeeds with a beacon URL has one
\* image reference with that URL in the body and a success notification.
C20_Original ==
    \A i \in 1..Len(answered) :
        LET a == answered[i]
            imgs == {j \in 1..Len(pixels) : pixels[j].src = a.result.tracking_url}
            shown == {j \in 1..Len(notes) :
                        notes[j].click = a.call.click /\ notes[j].type = "success"}
        IN (a.result.ok /\ a.result.tracking_url /= <<>>) =>
              /\ Cardinality(imgs) = 1
              /\ \A j \in imgs : pixels[j].node = a.call.node
              /\ Cardinality(shown) >= 1

\* a Create call of a surface with a body was answered with a beacon URL
C20_Witness ==
    \E i \in 1..Len(answered) :
        /\ answered[i].result.ok
        /\ answered[i].result.tracking_url /= <<>>
        /\ answered[i].call.body /= 0
        /\ Len(pixels) >= 1
        /\ Len(notes) >= 1

\* C21.  Every Create call that fails, or whose result carries no beacon URL,
\* leaves the message body unmodified and is followed by a failure
\* notification for its click.
C21_FailureNotified ==
    \A i \in 1..Len(answered) :
        LET a == answered[i] IN
        ~(a.result.ok /\ a.result.tracking_url /= <<>>) =>
            /\ \E j \in 1..Len(notes) : notes[j].click = a.call.click /\ notes[j].type = "error"
            /\ Len(pixels) <= Cardinality({h \in 1..Len(answered) :
                                             answered[h].result.tracking_url /= <<>>})

\* C22.  Every click on a send control reaches the host's own handler, on
\* every path of the listener, and the host has handled the click of every
\* Create call while that call is still unanswered.
C22_SendNeverBlocked ==
    /\ \A k \in 1..Len(sent) : sent[k].delivered
    /\ \A i \in 1..Len(calls) :
          calls[i].click <= Len(sent) /\ sent[calls[i].click].delivered
    /\ \A i \in 1..Len(answered) :
          answered[i].call.click <= Len(sent) /\ sent[answered[i].call.click].delivered

\* a click with tracking off and a click whose Create call is still out
C22_Witness ==
    /\ calls /= <<>>
    /\ \E k \in 1..Len(sent) : sent[k].tracking = "off" /\ sent[k].listeners = 1
    /\ \E k \in 1..Len(sent) : sent[k].tracking = "on" /\ CallsOfClick(k) /= {}

\* C23.  The beacon injected for a click is in the message body when the host
\* handles that click, so the message sent for the click contains it.
C23_BeaconInSentMessage ==
    \A k \in 1..Len(sent) :
        \A j \in PixelsOfClick(k) :
            \E b \in 1..Len(sent[k].beacons) : sent[k].beacons[b] = pixels[j].src

\* C24.  Stored records are immutable and never deleted: every step of create,
\* beacon fetch, list, detail and stats leaves every stored message and every
\* stored open in place with the field values it had.
C24_RecordsImmutable ==
    [][/\ Len(emails') >= Len(emails)
       /\ SubSeq(emails', 1, Len(emails)) = emails
       /\ Len(opens') >= Len(opens)
       /\ SubSeq(opens', 1, Len(opens)) = opens]_vars

\* a full store read by one of the read routes
C24_Witness ==
    /\ Len(emails) = MaxEmails
    /\ Len(opens) = MaxOpens
    /\ opens[1].email_id = opens[2].email_id
    /\ last.route \in {"list", "detail", "stats"}
    /\ last.resp.status = 200

\* C25.  Two recordOpen calls for one stored message with no source address,
\* made within the window, store one open: no two stored opens of one message
\* without a source address have openedAt values less than 60 seconds apart.
C25_AbsentAddressDeduplicated ==
    \A i, j \in 1..Len(opens) :
        (/\ i < j
         /\ opens[i].email_id = opens[j].email_id
         /\ opens[i].ip_address = Null
         /\ opens[j].ip_address = Null)
            => opens[j].opened_at - opens[i].opened_at >= 60

\* C26.  A deduplicated recordOpen call returns a stored open of its
\* (messageId, sourceAddress), with the id, openedAt and clientAgent that are
\* stored, and the step stores nothing and changes nothing in either table.
C26_DedupReturnsStored ==
    /\ [](last.outcome = "deduped"
            => /\ last.req.open.id \in KeyOpens(last.req.id, last.req.ip)
               /\ last.req.open = opens[last.req.open.id])
    /\ [][last'.outcome = "deduped" => (opens' = opens /\ emails' = emails)]_vars

\* a fetch deduplicated against an open stored with another client agent
C26_Witness ==
    /\ last.outcome = "deduped"
    /\ last.req.ua /= last.req.open.user_agent
    /\ last.req.ua /= Null

\* C27.  A fetch of a stored message is deduplicated only against opens of its
\* own messageId and its own sourceAddress: a key without a stored open always
\* inserts, whatever is stored for other addresses or other messages.
C27_DedupKeyIsPair ==
    \A id \in EmailIds, ip \in PresentIps :
        /\ RecentOpens(id, ip) \subseteq KeyOpens(id, ip)
        /\ KeyOpens(id, ip) = {} => Decision(id, ip) = "insert"

\* two opens stored within one window: of one message from two addresses, or
\* of two messages from one address
C27_Witness ==
    /\ Len(opens) = 2
    /\ opens[1].ip_address /= Null
    /\ opens[2].ip_address /= Null
    /\ opens[2].opened_at - opens[1].opened_at < 60
    /\ \/ opens[1].email_id = opens[2].email_id /\ opens[1].ip_address /= opens[2].ip_address
       \/ opens[1].email_id /= opens[2].email_id /\ opens[1].ip_address = opens[2].ip_address

\* C28.  The window is anchored at the stored open: a fetch is deduplicated
\* only within 59 seconds of a stored open of its key, and once every stored
\* open of the key is more than 60 seconds old the next fetch inserts, although
\* a deduplicated fetch of the key came less than 60 seconds before.
C28_WindowAnchoredAtStoredOpen ==
    last.outcome = "deduped" =>
        /\ (last.req.at \div TicksPerSec) - last.req.open.opened_at <= 59
        /\ (\A i \in KeyOpens(last.req.id, last.req.ip) :
                clock - insertedAt[i] > 60 * TicksPerSec)
              => Decision(last.req.id, last.req.ip) = "insert"

\* a fetch 50 seconds after the stored open was deduplicated, and the fetch of
\* the same key 20 seconds later is past its lookup and about to insert
C28_Witness ==
    /\ last.outcome = "deduped"
    /\ last.req.at - insertedAt[last.req.open.id] = 50 * TicksPerSec
    /\ clock - last.req.at = 20 * TicksPerSec
    /\ \E s \in Slots :
          reqs[s].st = "checked" /\ reqs[s].id = last.req.id /\ reqs[s].ip = last.req.ip

\* C29.  A storage fault during create, list, detail or stats is answered 500
\* with the fixed message of the route, and a create answered 500 leaves no
\* message in the store.
C29_StorageFaultGeneric500 ==
    /\ []((last.outcome = "fault" /\ last.route \in {"create", "list", "detail", "stats"})
            => /\ last.resp.status = 500
               /\ last.resp.body \in {[error |-> "Failed to create email"],
                                      [error |-> "Failed to fetch emails"],
                                      [error |-> "Failed to fetch email"],
                                      [error |-> "Failed to fetch stats"]})
    /\ [][(last'.route = "create" /\ last'.resp.status = 500) => emails' = emails]_vars

\* C30.  When the Create call of a click succeeds with a beacon URL and no
\* message body was located for the surface, a failure notification is shown.
C30_InjectionFailureNotified ==
    \A i \in 1..Len(answered) :
        LET a == answered[i] IN
        (a.result.ok /\ a.result.tracking_url /= <<>> /\ a.call.body = 0) =>
            \E j \in 1..Len(notes) : notes[j].click = a.call.click /\ notes[j].type = "error"

\* C31.  Every qualified surface has its own flag: it is on when the toggle
\* is created, it equals the state of the surface's checkbox after any
\* sequence of changes, and a change of one surface's toggle leaves the
\* bookkeeping of every other surface as it was.
C31_FlagFollowsCheckbox ==
    /\ [](\A n \in Dialogs :
            /\ ext[n].processed <=> ext[n].toggles > 0
            /\ ext[n].toggles > 0 => (ext[n].tracking = "on" <=> ext[n].checked)
            /\ ext[n].toggles > 0 => ext[n].tracking \in {"on", "off"})
    /\ [][\A n \in Dialogs :
            /\ (ext[n].toggles = 0 /\ ext'[n].toggles > 0) => ext'[n].tracking = "on"
            /\ (ext[n].toggles > 0 /\ ext'[n].checked /= ext[n].checked)
                  => \A m \in Dialogs \ {n} : ext'[m] = ext[m]]_vars

\* two qualified surfaces, one switched off and the other left on
C31_Witness ==
    \E n, m \in Dialogs :
        /\ ext[n].toggles > 0 /\ ext[n].tracking = "off" /\ ~ext[n].checked
        /\ ext[m].toggles > 0 /\ ext[m].tracking = "on" /\ ext[m].checked

\* the clicks on the send control of dialog n that its listener has handled
ClicksOn(n) == {k \in 1..Len(sent) : sent[k].node = n /\ sent[k].listeners > 0}

\* the listener sent a Create request for click number k
IsTracked(k) == sent[k].tracking = "on" /\ Len(getRecipients(sent[k].inputs)) > 0

C33_FlagReadAtClickOnly ==
    /\ \A k \in 1..Len(sent) :
          (CallsOfClick(k) \cup AnsweredOfClick(k) /= {})
              <=> (sent[k].listeners > 0 /\ IsTracked(k))
    /\ \A i \in 1..Len(answered) :
          (HasBeaconUrl(answered[i].result) /\ answered[i].call.body /= 0)
              => \E j \in 1..Len(pixels) :
                     /\ pixels[j].src = answered[i].result.tracking_url
                     /\ pixels[j].node = answered[i].call.node

\* one surface: a tracked click, the toggle switched off, an untracked click
\* that saw no image in the body, then the image of the first click appended
\* and the toggle switched on again, with no Create request for the second
C33_Witness ==
    /\ Len(sent) = 2
    /\ sent[1].node = sent[2].node
    /\ sent[1].tracking = "on"
    /\ sent[2].tracking = "off"
    /\ sent[2].listeners > 0
    /\ sent[2].beacons = <<>>
    /\ PixelsOfClick(1) /= {}
    /\ ext[sent[2].node].tracking = "on"
    /\ CallsOfClick(2) = {}
    /\ AnsweredOfClick(2) = {}

\* the Create requests of dialog n: in flight and answered
RequestsOf(n) ==
    Cardinality({i \in 1..Len(calls) : calls[i].node = n})
        + Cardinality({i \in 1..Len(answered) : answered[i].call.node = n})

\* C34.  For every surface, in every state: each click has at most one Create
\* request, the Create requests are as many as the clicks made with the flag
\* on and a recipient, and the images in its body are no more than the
\* successful Create responses received.
C34_RequestsMatchClicks ==
    /\ \A k \in 1..Len(sent) :
          Cardinality(CallsOfClick(k)) + Cardinality(AnsweredOfClick(k)) <= 1
    /\ \A n \in Dialogs :
          /\ RequestsOf(n) = Cardinality({k \in 1..Len(sent) : sent[k].node = n /\ IsTracked(k)})
          /\ Cardinality({j \in 1..Len(pixels) : pixels[j].node = n})
                <= Cardinality({i \in 1..Len(answered) :
                                  /\ answered[i].call.node = n
                                  /\ HasBeaconUrl(answered[i].result)})

\* two tracked clicks on one surface answered in the reverse order, both with
\* a beacon URL
C34_Witness ==
    /\ Len(answered) = 2
    /\ answered[1].call.click = 2
    /\ answered[2].call.click = 1
    /\ answered[1].call.node = answered[2].call.node
    /\ HasBeaconUrl(answered[1].result)
    /\ HasBeaconUrl(answered[2].result)
    /\ Len(pixels) = 2

\* C35.  Every stored open has the id of a stored message as its messageId:
\* no beacon fetch, with a known or an unknown id, stores an orphan open.
C35_NoOrphanOpen ==
    \A i \in 1..Len(opens) :
        \E j \in 1..Len(emails) : emails[j].id = opens[i].email_id

\* opens of two messages are stored and the last fetch was for an unknown id
C35_Witness ==
    /\ Len(opens) = 2
    /\ opens[1].email_id /= opens[2].email_id
    /\ last.route = "track"
    /\ last.outcome = "unknown"

\* C36, as amended.  The stats satisfy messagesWithAtLeastOneOpen <=
\* totalMessages, messagesWithAtLeastOneOpen <= totalOpens and 0 <=
\* openRatePercent <= 100; openRatePercent is 100 whenever a message exists and
\* every message has an open, and only when a message exists and at least
\* 99.5 % of the messages have one.
C36_StatsBounds ==
    (last.route = "stats" /\ last.resp.status = 200)
        => LET st == last.resp.body IN
           /\ st.emails_opened <= st.total_emails
           /\ st.emails_opened <= st.total_opens
           /\ 0 <= st.open_rate
           /\ st.open_rate <= 100
           /\ (Len(emails) >= 1 /\ \A i \in 1..Len(emails) : OpenCount(emails[i].id) >= 1)
                 => st.open_rate = 100
           /\ st.open_rate = 100
                 => (st.total_emails >= 1 /\ 200 * st.emails_opened >= 199 * st.total_emails)

\* C36 as stated: openRatePercent is 100 exactly when a message exists and
\* every message has an open.
C36_Original ==
    (last.route = "stats" /\ last.resp.status = 200)
        => (last.resp.body.open_rate = 100
               <=> (Len(emails) >= 1 /\ \A i \in 1..Len(emails) : OpenCount(emails[i].id) >= 1))

\* an open rate of 100 for a store in which a message has no open
C36_Witness ==
    /\ last.route = "stats"
    /\ last.resp.status = 200
    /\ last.resp.body.open_rate = 100
    /\ last.resp.body.emails_opened < last.resp.body.total_emails
    /\ last.resp.body.total_opens > last.resp.body.emails_opened

\* the routes that only read
ReadRoutes == {"list", "detail", "stats", "health"}

\* C37.  A read leaves the store unchanged: the step that answers a list, a
\* detail, a stats or a health request changes neither table.  A read that
\* follows a read of the same route and argument with no other request in
\* between, both without a fault, returns the same result.
C37_ReadsChangeNothing ==
    /\ [][(last' /= last /\ last'.route \in ReadRoutes)
             => (emails' = emails /\ opens' = opens)]_vars
    /\ [][(/\ last.route \in ReadRoutes
           /\ last'.route = last.route
           /\ last'.req = last.req
           /\ last.outcome /= "fault"
           /\ last'.outcome /= "fault")
             => (last'.resp = last.resp /\ emails' = emails /\ opens' = opens)]_vars

\* a listing of two messages created in the same second
C37_Witness ==
    /\ last.route = "list"
    /\ last.resp.status = 200
    /\ Len(emails) = 2
    /\ emails[1].created_at = emails[2].created_at
    /\ Len(opens) >= 1
    /\ plan /= "unset"

====
